---- MODULE Spec2Model ----
(***************************************************************************)
(* Model of main.py: the Player object (position, view angle, image cache  *)
(* fill, background generation thread, result queue) and the control loop  *)
(* of main().                                                              *)
(*                                                                         *)
(* Numbers.  Positions are floats in the program; here they are fixed      *)
(* point, in hundredths of a grid unit (2.5 is 250).  Angles are whole     *)
(* degrees.  Float rounding error is outside the model.                    *)
(***************************************************************************)
EXTENDS Integers, Sequences, FiniteSets, TLC

VARIABLES
  position,       \* Player.position  <<x, y>>, hundredths
  angle,          \* Player.angle     <<yaw, pitch>>, degrees
  image,          \* Player.image     texture id, NoImage for None
  generating,     \* Player.generating
  last_position,  \* Player.last_position, None or <<x, y>>
  cache_key,      \* Player.cache_key, None or <<kx, ky>>
  image_queue,    \* Player.image_queue, sequence of <<cache_key, image>>
  image_cache,    \* module-level dict image_cache: cache_key -> texture id
  textures,       \* GL texture store: textures[id] is the image uploaded as id
  threads,        \* live run_generation threads
  pc,             \* position of main()
  iter,           \* number of control-loop iterations begun
  direction,      \* main()'s local 'direction' of the current iteration
  calls,          \* history: producer invocations, in start order
  failed,         \* history: ids of the productions whose producer raised
  retry,          \* history: keys with a failed production and no check since
  yaw_sum,        \* history: sum of the yaw deltas passed to look()
  call,           \* arguments of the last direct combine_prompts call
  ret             \* its return value

vars == <<position, angle, image, generating, last_position, cache_key,
          image_queue, image_cache, textures, threads, pc, iter, direction,
          calls, failed, retry, yaw_sum, call, ret>>

playerVars == <<position, angle, image, generating, last_position, cache_key,
                image_queue>>
harnessVars == <<call, ret>>

----------------------------------------------------------------------------
(* Bounds of the model *)

MaxIter == 4        \* control-loop iterations explored
MaxIterLive == 3    \* control-loop iterations explored for progress of the loop
MaxYaw == 400       \* largest |yaw| explored by direct look() calls, degrees
MaxLength == 24     \* largest max_length given to combine_prompts directly

----------------------------------------------------------------------------
(* Values *)

None == <<>>
NoImage == 0

\* a float literal n/d as a fixed-point number (hundredths)
Fixed(n, d) == (n * 100) \div d

\* Python int(): truncation toward zero of the fixed-point number n / d
Trunc(n, d) == IF n >= 0 THEN n \div d ELSE -((-n) \div d)

\* rounding of n / d to the nearest integer
RoundDiv(n, d) == (2 * n + d) \div (2 * d)

Min(a, b) == IF a < b THEN a ELSE b
Max(a, b) == IF a > b THEN a ELSE b

\* np.clip(v, lo, hi)
clip(v, lo, hi) == Min(Max(v, lo), hi)

Range(s) == {s[i] : i \in 1..Len(s)}

----------------------------------------------------------------------------
(* The game map *)

grid_size == <<5, 5>>

L(t, n) == [text |-> t, tokens |-> n]

\* each label carries the number of tokens the tokenizer makes of its text
grid_prompts == <<
  << L("A futuristic cityscape", 3), L("A serene beach", 3),
     L("A dense forest", 3), L("A snowy mountain", 3),
     L("A desert landscape", 3) >>,
  << L("An underwater coral reef", 4), L("A bustling medieval market", 4),
     L("An alien planet", 3), L("A magical floating castle", 4),
     L("A volcanic landscape", 3) >>,
  << L("A night sky with galaxies", 5), L("A sunflower field", 3),
     L("An abstract painting", 3), L("A futuristic spaceship interior", 4),
     L("A peaceful Japanese garden", 4) >>,
  << L("A haunted house on a hill", 6), L("A tropical rainforest", 3),
     L("A cyberpunk street scene", 4), L("An ice cave with crystals", 5),
     L("A grassy meadow with wildflowers", 5) >>,
  << L("An ancient temple in the jungle", 6), L("A futuristic laboratory", 3),
     L("A mystical swamp with glowing plants", 6),
     L("A grand library with endless shelves", 6),
     L("An open ocean with whales", 5) >> >>

\* grid[x][y] with Python's 0-based indices
grid(x, y) == grid_prompts[x + 1][y + 1]

----------------------------------------------------------------------------
(* combine_prompts *)

\* len(model.tokenizer.encode(text)): start and end markers, the tokens of
\* each label, one token for each ' | ' separator.  A text is the sequence
\* of the labels joined by ' | '.
RECURSIVE SumTokens(_)
SumTokens(text) ==
  IF text = <<>> THEN 0 ELSE Head(text).tokens + SumTokens(Tail(text))

token_length(text) ==
  2 + SumTokens(text) + (IF Len(text) > 0 THEN Len(text) - 1 ELSE 0)

\* the test that ends the loop of combine_prompts, made after the append
StopAfter(combined, max_length) == token_length(combined) > max_length

\* the loop of combine_prompts from index i on, 'combined' built so far
RECURSIVE combine_from(_, _, _, _, _)
combine_from(prompts, weights, max_length, i, combined) ==
  IF i > Min(Len(prompts), Len(weights)) THEN combined
  ELSE IF weights[i] > 0
       THEN LET c == Append(combined, prompts[i])
            IN  IF StopAfter(c, max_length) THEN c
                ELSE combine_from(prompts, weights, max_length, i + 1, c)
       ELSE combine_from(prompts, weights, max_length, i + 1, combined)

combine_prompts(prompts, weights, max_length) ==
  combine_from(prompts, weights, max_length, 1, <<>>)

DefaultMaxLength == 77

----------------------------------------------------------------------------
(* Player *)

\* variant: clamp to the grid size instead of the last index
move_to_size(p, d) ==
  << clip(p[1] + d[1], 0, Fixed(grid_size[1], 1)),
     clip(p[2] + d[2], 0, Fixed(grid_size[2], 1)) >>

\* Player.move: add, then clamp to the grid
move(p, d) ==
  << clip(p[1] + d[1], 0, Fixed(grid_size[1] - 1, 1)),
     clip(p[2] + d[2], 0, Fixed(grid_size[2] - 1, 1)) >>

\* variant: the yaw is kept within one turn
look_wrapped(a, d) == << (a[1] + d[1]) % 360, clip(a[2] + d[2], -90, 90) >>

\* Player.look: add, then clamp the pitch only
look(a, d) == << a[1] + d[1], clip(a[2] + d[2], -90, 90) >>

\* (int(position[0] * 10), int(position[1] * 10))
CacheKeyOf(p) == << Trunc(p[1] * 10, Fixed(1, 1)), Trunc(p[2] * 10, Fixed(1, 1)) >>

\* x0, y0, x1, y1 of generate_image
Cell0(p) == << Trunc(p[1], Fixed(1, 1)), Trunc(p[2], Fixed(1, 1)) >>
Cell1(p) == << Min(Cell0(p)[1] + 1, grid_size[1] - 1),
               Min(Cell0(p)[2] + 1, grid_size[2] - 1) >>

\* t_x, t_y, hundredths
Frac(p) == << p[1] - Fixed(Cell0(p)[1], 1), p[2] - Fixed(Cell0(p)[2], 1) >>

BlendPrompts(p) ==
  LET c0 == Cell0(p)  c1 == Cell1(p)
  IN  << grid(c0[1], c0[2]), grid(c1[1], c0[2]),
         grid(c0[1], c1[2]), grid(c1[1], c1[2]) >>

\* variant: the weights of the x and the y neighbour are exchanged
BlendWeights_swapped(p) ==
  LET tx == Frac(p)[1]  ty == Frac(p)[2]  one == Fixed(1, 1)
  IN  << (one - tx) * (one - ty), (one - tx) * ty,
         tx * (one - ty),         tx * ty >>

\* the four bilinear weights, in 1/10000
BlendWeights(p) ==
  LET tx == Frac(p)[1]  ty == Frac(p)[2]  one == Fixed(1, 1)
  IN  << (one - tx) * (one - ty), tx * (one - ty),
         (one - tx) * ty,         tx * ty >>

combined_prompt(p) ==
  combine_prompts(BlendPrompts(p), BlendWeights(p), DefaultMaxLength)

\* variant: generate_image without its early return
Suppressed_never == FALSE

\* the guard at the top of generate_image
Suppressed == generating

\* variant: the cache is not consulted
CacheHit_never(key) == FALSE

\* key present in the cache: the test of the cache-hit branch
CacheHit(key) == key \in DOMAIN image_cache

\* a new run_generation thread; its id identifies the image it will make
NewThread(prompt) ==
  [id |-> Len(calls) + 1, pc |-> "model", prompt |-> prompt, raised |-> FALSE]

\* Player.generate_image, called when self.position is p.  The control loop
\* is its only caller; every read of 'generating' that finds it False comes
\* after the last write of any earlier worker, so the body runs as one step.
generate_image(p) ==
  IF Suppressed
  THEN UNCHANGED <<generating, last_position, cache_key, image, threads, calls>>
  ELSE LET key == CacheKeyOf(p)
       IN  /\ last_position' = p
           /\ cache_key' = key
           /\ IF CacheHit(key)
              THEN /\ image' = image_cache[key]
                   /\ generating' = FALSE
                   /\ UNCHANGED <<threads, calls>>
              ELSE /\ generating' = TRUE
                   /\ threads' = threads \cup {NewThread(combined_prompt(p))}
                   /\ calls' = Append(calls, [key |-> key, pos |-> p,
                                              prompt |-> combined_prompt(p)])
                   /\ UNCHANGED image

\* image_from_pil: a fresh texture name holding the image's pixels
image_from_pil == Len(textures) + 1

\* variant: an entry is taken only when another one is behind it
DrainCount_behind == IF Len(image_queue) > 1 THEN 1 ELSE 0

\* how many entries one call of process_generated_image takes off the queue
DrainCount == IF Len(image_queue) > 0 THEN 1 ELSE 0

\* variant: a blocking get() in place of get_nowait()
process_generated_image_blocking ==
  /\ Len(image_queue) > 0
  /\ image_queue' = Tail(image_queue)
  /\ textures' = Append(textures, Head(image_queue)[2])
  /\ image_cache' = [k \in DOMAIN image_cache \cup {Head(image_queue)[1]} |->
                       IF k = Head(image_queue)[1] THEN Len(textures) + 1
                       ELSE image_cache[k]]
  /\ image' = Len(textures) + 1

\* Player.process_generated_image
process_generated_image ==
  IF DrainCount = 0
  THEN UNCHANGED <<image_queue, image_cache, textures, image>>
  ELSE LET entry == Head(image_queue)
           texture_id == image_from_pil
       IN  /\ image_queue' = Tail(image_queue)
           /\ textures' = Append(textures, entry[2])
           /\ image_cache' = [k \in DOMAIN image_cache \cup {entry[1]} |->
                                IF k = entry[1] THEN texture_id ELSE image_cache[k]]
           /\ image' = texture_id

----------------------------------------------------------------------------
(* run_generation, the worker thread; t is a live thread *)

KeyOfThread(t) == calls[t.id].key

\* where the thread goes when the producer call raises: the except block
\* prints and falls into 'finally', passing the queue push by
AfterRaise == "finally"

\* variant: the flag is left set when the thread ends
FinallyFlag_stuck == generating

\* the value the 'finally' block stores in self.generating
FinallyFlag == FALSE

\* variant: the key is derived from the position at the time of the push
PushedKey_current(t) == CacheKeyOf(position)

\* the key put on the queue with the image: self.cache_key, read at the push
PushedKey(t) == cache_key

SetThread(t, newpc, raised) ==
  (threads \ {t}) \cup {[t EXCEPT !.pc = newpc, !.raised = raised]}

\* model(combined_prompt, ...) returns its images
ModelReturns(t) ==
  /\ t \in threads /\ t.pc = "model"
  /\ threads' = SetThread(t, "put", FALSE)
  /\ UNCHANGED <<playerVars, image_cache, textures, pc, iter, direction,
                 calls, failed, retry, yaw_sum, harnessVars>>

\* model(combined_prompt, ...) raises
ModelRaises(t) ==
  /\ t \in threads /\ t.pc = "model"
  /\ threads' = SetThread(t, AfterRaise, TRUE)
  /\ failed' = failed \cup {t.id}
  /\ UNCHANGED <<playerVars, image_cache, textures, pc, iter, direction,
                 calls, retry, yaw_sum, harnessVars>>

\* self.image_queue.put((self.cache_key, high_res))
Put(t) ==
  /\ t \in threads /\ t.pc = "put"
  /\ image_queue' = Append(image_queue, <<PushedKey(t), t.id>>)
  /\ threads' = SetThread(t, "finally", t.raised)
  /\ UNCHANGED <<position, angle, image, generating, last_position, cache_key,
                 image_cache, textures, pc, iter, direction, calls, failed,
                 retry, yaw_sum, harnessVars>>

\* finally: self.generating = False, and the thread ends
Finally(t) ==
  /\ t \in threads /\ t.pc = "finally"
  /\ generating' = FinallyFlag
  /\ threads' = threads \ {t}
  /\ retry' = IF t.id \in failed THEN retry \cup {KeyOfThread(t)} ELSE retry
  /\ UNCHANGED <<position, angle, image, last_position, cache_key, image_queue,
                 image_cache, textures, pc, iter, direction, calls, failed,
                 yaw_sum, harnessVars>>

----------------------------------------------------------------------------
(* main *)

StartPosition == << Fixed(5, 2), Fixed(5, 2) >>
move_speed == Fixed(5, 100)

\* d_angle of a mouse movement of m pixels: m * mouse_sensitivity (0.1)
Sensitivity(m) == m \div 10

\* the key sets tried, and the mouse movements, per iteration
KeyCombos == { {}, {"d"}, {"s", "d"}, {"w", "a"} }
MouseDx == {0, 370, -370}
MouseDy == {0}

\* the yaw values for which the table below gives cosine and sine
YawDomain == {0, 37}

\* np.cos / np.sin of np.radians(yaw), in hundredths, rounded
cos100(yaw) == CASE yaw % 360 = 0 -> 100 [] yaw % 360 = 37 -> 80
                 [] yaw % 360 = 90 -> 0  [] yaw % 360 = 323 -> 80
sin100(yaw) == CASE yaw % 360 = 0 -> 0   [] yaw % 360 = 37 -> 60
                 [] yaw % 360 = 90 -> 100 [] yaw % 360 = 323 -> -60

\* 'direction' after the four key tests
DirectionOf(keys) ==
  << (IF "d" \in keys THEN move_speed ELSE 0) - (IF "a" \in keys THEN move_speed ELSE 0),
     (IF "s" \in keys THEN move_speed ELSE 0) - (IF "w" \in keys THEN move_speed ELSE 0) >>

\* [dx, dy]: the direction rotated by the player's yaw
Rotate(d, yaw) ==
  << RoundDiv(d[1] * cos100(yaw) - d[2] * sin100(yaw), 100),
     RoundDiv(d[1] * sin100(yaw) + d[2] * cos100(yaw), 100) >>

\* variant: a distance of exactly 0.1 counts as far
FarFrom_inclusive(p, q) ==
  (p[1] - q[1]) * (p[1] - q[1]) + (p[2] - q[2]) * (p[2] - q[2])
    >= Fixed(1, 10) * Fixed(1, 10)

\* np.linalg.norm(p - q) > 0.1, compared on the squares
FarFrom(p, q) ==
  (p[1] - q[1]) * (p[1] - q[1]) + (p[2] - q[2]) * (p[2] - q[2])
    > Fixed(1, 10) * Fixed(1, 10)

\* the test that guards the call of generate_image in the loop
ShouldGenerate(p) == last_position = None \/ FarFrom(p, last_position)

\* player.generate_image() before the loop
InitialGenerate ==
  /\ pc = "start"
  /\ generate_image(position)
  /\ pc' = "input"
  /\ UNCHANGED <<position, angle, image_queue, image_cache, textures, iter,
                 direction, failed, retry, yaw_sum, harnessVars>>

\* one iteration, from the key state to the end of 'if np.any(direction)'
MainMove ==
  /\ pc = "input" /\ iter < MaxIter
  /\ \E keys \in KeyCombos :
       LET dir == DirectionOf(keys)
           p == move(position, Rotate(dir, angle[1]))
       IN  /\ direction' = dir
           /\ IF dir # <<0, 0>>
              THEN /\ position' = p
                   /\ retry' = retry \ {CacheKeyOf(p)}
                   /\ IF ShouldGenerate(p)
                      THEN generate_image(p)
                      ELSE UNCHANGED <<generating, last_position, cache_key,
                                       image, threads, calls>>
              ELSE UNCHANGED <<position, retry, generating, last_position,
                               cache_key, image, threads, calls>>
  /\ iter' = iter + 1
  /\ pc' = "look"
  /\ UNCHANGED <<angle, image_queue, image_cache, textures, failed, yaw_sum,
                 harnessVars>>

\* mouse look
LookStep ==
  /\ pc = "look"
  /\ \E mdx \in MouseDx, mdy \in MouseDy :
       /\ angle' = look(angle, <<Sensitivity(mdx), Sensitivity(mdy)>>)
       /\ angle'[1] \in YawDomain
       /\ yaw_sum' = yaw_sum + Sensitivity(mdx)
  /\ pc' = "drain"
  /\ UNCHANGED <<position, image, generating, last_position, cache_key,
                 image_queue, image_cache, textures, threads, iter, direction,
                 calls, failed, retry, harnessVars>>

\* player.process_generated_image()
DrainStep ==
  /\ pc = "drain"
  /\ process_generated_image
  /\ pc' = "draw"
  /\ UNCHANGED <<position, angle, generating, last_position, cache_key,
                 threads, iter, direction, calls, failed, retry, yaw_sum,
                 harnessVars>>

\* player.draw() and the flip: the texture self.image is shown
DrawStep ==
  /\ pc = "draw"
  /\ pc' = "input"
  /\ UNCHANGED <<playerVars, image_cache, textures, threads, iter, direction,
                 calls, failed, retry, yaw_sum, harnessVars>>

\* pygame.QUIT: sys.exit() in the main thread; live workers run on
Quit ==
  /\ pc = "input"
  /\ pc' = "exit"
  /\ UNCHANGED <<playerVars, image_cache, textures, threads, iter, direction,
                 calls, failed, retry, yaw_sum, harnessVars>>

\* Player((2.5, 2.5)) constructed, nothing generated yet
Init ==
  /\ position = StartPosition
  /\ angle = <<0, 0>>
  /\ image = NoImage
  /\ generating = FALSE
  /\ last_position = None
  /\ cache_key = None
  /\ image_queue = <<>>
  /\ image_cache = <<>>
  /\ textures = <<>>
  /\ threads = {}
  /\ pc = "start"
  /\ iter = 0
  /\ direction = <<0, 0>>
  /\ calls = <<>>
  /\ failed = {}
  /\ retry = {}
  /\ yaw_sum = 0
  /\ call = None
  /\ ret = None

Next ==
  \/ InitialGenerate
  \/ MainMove
  \/ LookStep
  \/ DrainStep
  \/ DrawStep
  \/ Quit
  \/ \E t \in threads : ModelReturns(t)
  \/ \E t \in threads : ModelRaises(t)
  \/ \E t \in threads : Put(t)
  \/ \E t \in threads : Finally(t)

Spec == Init /\ [][Next]_vars

----------------------------------------------------------------------------
(* Properties of the cache fill and the generation pipeline, under Spec *)

InQueue(key) == \E i \in 1..Len(image_queue) : image_queue[i][1] = key
LiveFor(key) == \E t \in threads : KeyOfThread(t) = key
Started == Len(calls') = Len(calls) + 1
StartedKey == calls'[Len(calls')].key
\* the step of the loop that holds the regeneration check
CheckStep == pc = "input" /\ pc' = "look" /\ direction' # <<0, 0>>
FailedKeys == {calls[id].key : id \in failed}

\* C1: once a key is in image_cache, no step removes it or changes the
\* artifact stored under it.
C1_IdempotentFill ==
  [][\A k \in DOMAIN image_cache :
        k \in DOMAIN image_cache' /\ image_cache'[k] = image_cache[k]]_vars

\* C2: a producer invocation for a key starts only when the key is not
\* cached, no result for it waits in the queue and no worker for it is live.
C2_SingleFlightPerKey ==
  [][Started => /\ StartedKey \notin DOMAIN image_cache
                /\ ~InQueue(StartedKey)
                /\ ~LiveFor(StartedKey)]_vars

\* C3: at most one worker thread is inside the producer call at any time.
C3_SingleFlightPerPlayer ==
  Cardinality({t \in threads : t.pc = "model"}) <= 1

\* a request was due (moved, far from last_position) and was suppressed by
\* a worker still inside the producer call
C3_Witness ==
  /\ pc = "look" /\ direction # <<0, 0>>
  /\ last_position # None /\ FarFrom(position, last_position)
  /\ \E t \in threads : t.pc = "model"

\* C4: the drain step removes every entry that is in the queue when it is
\* called and leaves each of their keys in image_cache.
C4_DrainAll ==
  [][(pc = "drain" /\ pc' = "draw") =>
       \A i \in 1..Len(image_queue) :
          /\ image_queue[i] \notin Range(image_queue')
          /\ image_queue[i][1] \in DOMAIN image_cache']_vars

\* C5: a production whose producer raised never has its image on the queue
\* or uploaded as a texture, and when its worker ends generating is false
\* and its key is neither cached nor in flight.
C5_FailureIsMiss ==
  /\ [](\A id \in failed :
          /\ \A i \in 1..Len(image_queue) : image_queue[i][2] # id
          /\ id \notin Range(textures))
  /\ [][\A t \in threads :
          (t.id \in failed /\ \A u \in threads' : u.id # t.id)
             => /\ generating' = FALSE
                /\ KeyOfThread(t) \notin DOMAIN image_cache'
                /\ \A u \in threads' : KeyOfThread(u) # KeyOfThread(t)]_vars

\* C6 as stated: the first regeneration check made at a position deriving K
\* after a production for K failed starts a producer invocation for K.
C6_RetryAtNextCheck ==
  [][(CheckStep /\ CacheKeyOf(position') \in retry)
       => (Started /\ StartedKey = CacheKeyOf(position'))]_vars

\* C6 amended: that check starts a producer invocation for K when the
\* position is more than 0.1 from last_position, no worker is live and K is
\* not cached; a check within 0.1 of last_position starts none.
C6_RetryWhenFar ==
  [][(CheckStep /\ CacheKeyOf(position') \in retry)
       => IF FarFrom(position', last_position)
          THEN (threads = {} /\ CacheKeyOf(position') \notin DOMAIN image_cache)
                  => (Started /\ StartedKey = CacheKeyOf(position'))
          ELSE ~Started]_vars

\* a second production runs for the key of a failed one
C6_Witness ==
  \E id \in failed : \E t \in threads :
     t.id > id /\ KeyOfThread(t) = calls[id].key

\* C7: at the render step, when the key of the current position is cached,
\* player.image is the artifact cached under it.
C7_CurrentArtifactRendered ==
  pc = "draw" =>
    (CacheHit(CacheKeyOf(position)) => image = image_cache[CacheKeyOf(position)])

----------------------------------------------------------------------------
(* Direct calls of Player.move, Player.look and combine_prompts, with       *)
(* arguments beyond what the keyboard and the grid labels supply.           *)

MoveDeltas == {-1000, -50, 35, 1000}
AngleDeltas == {-120, -45, 0, 45, 120}
PromptLists == { BlendPrompts(<<250, 250>>), BlendPrompts(<<50, 350>>),
                 BlendPrompts(<<400, 10>>) }
WeightLists == [1..4 -> {0, 2500}]

\* player.move(delta)
MoveCall ==
  /\ \E dx \in MoveDeltas, dy \in MoveDeltas :
       /\ position' = move(position, <<dx, dy>>)
       /\ call' = <<"move", <<dx, dy>>>>
  /\ UNCHANGED <<angle, image, generating, last_position, cache_key,
                 image_queue, image_cache, textures, threads, pc, iter,
                 direction, calls, failed, retry, yaw_sum, ret>>

\* player.look(d_angle)
LookCall ==
  /\ \E dyaw \in AngleDeltas, dpitch \in AngleDeltas :
       /\ yaw_sum + dyaw \in -MaxYaw..MaxYaw
       /\ angle' = look(angle, <<dyaw, dpitch>>)
       /\ yaw_sum' = yaw_sum + dyaw
       /\ call' = <<"look", <<dyaw, dpitch>>>>
  /\ UNCHANGED <<position, image, generating, last_position, cache_key,
                 image_queue, image_cache, textures, threads, pc, iter,
                 direction, calls, failed, retry, ret>>

\* combine_prompts(prompts, weights, max_length)
CombineCall ==
  /\ \E p \in PromptLists, w \in WeightLists, m \in 0..MaxLength :
       /\ call' = <<"combine_prompts", p, w, m>>
       /\ ret' = combine_prompts(p, w, m)
  /\ UNCHANGED <<playerVars, image_cache, textures, threads, pc, iter,
                 direction, calls, failed, retry, yaw_sum>>

SpecMove == Init /\ [][MoveCall]_vars
SpecLook == Init /\ [][LookCall]_vars
SpecBlend == Init /\ [][CombineCall]_vars

InGrid(p) == /\ p[1] \in 0..Fixed(grid_size[1] - 1, 1)
             /\ p[2] \in 0..Fixed(grid_size[2] - 1, 1)

\* C8: after any moves the position is inside the grid, the cache key it
\* derives is inside 0..40 by 0..40, and the four grid lookups of
\* generate_image use indices of the 5x5 table.
C8_PositionBounds ==
  /\ InGrid(position)
  /\ CacheKeyOf(position)[1] \in 0..(10 * (grid_size[1] - 1))
  /\ CacheKeyOf(position)[2] \in 0..(10 * (grid_size[2] - 1))
  /\ \A c \in {Cell0(position), Cell1(position)} :
       c[1] \in 0..(Len(grid_prompts) - 1) /\ c[2] \in 0..(Len(grid_prompts[1]) - 1)

\* a move far past two edges ended on the corner
C8_Witness ==
  /\ call # None /\ call[1] = "move" /\ call[2] = <<1000, -1000>>
  /\ position = <<Fixed(grid_size[1] - 1, 1), 0>>

\* C9: after any look calls the pitch is within [-90, 90] and the yaw is
\* the sum of the yaw deltas applied.
C9_PitchClampYawSum ==
  /\ angle[2] \in -90..90
  /\ angle[1] = yaw_sum

\* the yaw has passed a full turn and the pitch was clamped
C9_Witness ==
  /\ call # None /\ call[1] = "look" /\ call[2][2] = 120
  /\ angle[1] > 360 /\ angle[2] = 90

\* the labels of positive weight, in order
RECURSIVE Positive(_, _)
Positive(prompts, weights) ==
  IF prompts = <<>> \/ weights = <<>> THEN <<>>
  ELSE (IF Head(weights) > 0 THEN <<Head(prompts)>> ELSE <<>>)
         \o Positive(Tail(prompts), Tail(weights))

IsPrefix(a, b) == Len(a) <= Len(b) /\ a = SubSeq(b, 1, Len(a))

\* C10: combine_prompts returns a prefix of the positive-weight labels that
\* holds the first of them, holds no later label whose inclusion takes the
\* token length past max_length, and so is within max_length whenever the
\* first label alone is.
C10_BlendTruncation ==
  (call # None /\ call[1] = "combine_prompts") =>
    LET pos == Positive(call[2], call[3])
        max_length == call[4]
    IN  /\ IsPrefix(ret, pos)
        /\ pos # <<>> => Len(ret) >= 1
        /\ \A i \in 2..Len(ret) : token_length(SubSeq(ret, 1, i)) <= max_length
        /\ (pos # <<>> /\ token_length(<<pos[1]>>) <= max_length)
              => token_length(ret) <= max_length

----------------------------------------------------------------------------
(* The first request of a player constructed at any position of the grid *)

Coordinates == {0, 30, 100, 250, 275, 350, 399, 400}
TestPositions == Coordinates \X Coordinates

\* Player(p) for a position p of the grid, nothing generated yet
InitRequest ==
  /\ position \in TestPositions
  /\ angle = <<0, 0>>
  /\ image = NoImage
  /\ generating = FALSE
  /\ last_position = None
  /\ cache_key = None
  /\ image_queue = <<>>
  /\ image_cache = <<>>
  /\ textures = <<>>
  /\ threads = {}
  /\ pc = "start"
  /\ iter = 0
  /\ direction = <<0, 0>>
  /\ calls = <<>>
  /\ failed = {}
  /\ retry = {}
  /\ yaw_sum = 0
  /\ call = None
  /\ ret = None

SpecRequest == InitRequest /\ [][InitialGenerate]_vars

\* the labels the blend is to select at position p: those of strictly
\* positive bilinear weight, in the order 00, 10, 01, 11
SelectedLabels(p) ==
  LET x0 == p[1] \div 100   y0 == p[2] \div 100
      tx == p[1] % 100      ty == p[2] % 100
      x1 == IF x0 + 1 <= 4 THEN x0 + 1 ELSE 4
      y1 == IF y0 + 1 <= 4 THEN y0 + 1 ELSE 4
      pick(w, x, y) == IF w > 0 THEN <<grid_prompts[x + 1][y + 1]>> ELSE <<>>
  IN  pick((100 - tx) * (100 - ty), x0, y0) \o pick(tx * (100 - ty), x1, y0)
        \o pick((100 - tx) * ty, x0, y1) \o pick(tx * ty, x1, y1)

\* C11: the request of every production is the sequence of the labels of
\* strictly positive weight in the order 00, 10, 01, 11; it is the single
\* label grid[x0][y0] when both offsets are 0 and has all four labels when
\* both offsets are strictly inside (0, 1).
C11_BlendSelection ==
  \A i \in 1..Len(calls) :
    LET p == calls[i].pos
        req == calls[i].prompt
    IN  /\ req = SelectedLabels(p)
        /\ (p[1] % 100 = 0 /\ p[2] % 100 = 0)
              => req = <<grid_prompts[p[1] \div 100 + 1][p[2] \div 100 + 1]>>
        /\ (p[1] % 100 > 0 /\ p[2] % 100 > 0) => Len(req) = 4

\* a request made on the upper edge in x, between two cells in y
C11_Witness ==
  /\ Len(calls) = 1 /\ calls[1].pos = <<400, 250>>
  /\ calls[1].prompt = <<grid_prompts[5][3], grid_prompts[5][4]>>

----------------------------------------------------------------------------
(* Properties of the regeneration policy, under Spec *)

\* the square of the distance of p and q, in 1/10000
Dist2(p, q) ==
  (p[1] - q[1]) * (p[1] - q[1]) + (p[2] - q[2]) * (p[2] - q[2])

\* C12: with no production in flight and last_position set, a move ending
\* at most 0.1 from last_position starts nothing and keeps last_position; a
\* move ending farther away makes last_position the current position and
\* starts a producer invocation for the current key unless it is cached.
C12_DistanceThreshold ==
  [][(CheckStep /\ ~generating /\ last_position # None) =>
       IF Dist2(position', last_position) > 10 * 10
       THEN /\ last_position' = position'
            /\ IF CacheKeyOf(position') \in DOMAIN image_cache
               THEN ~Started
               ELSE Started /\ StartedKey = CacheKeyOf(position')
       ELSE ~Started /\ last_position' = last_position]_vars

\* after the request at (2.5, 2.5) the moves to (2.55, 2.5) and (2.6, 2.5)
\* issued nothing and the move to (2.65, 2.5) issued the second request
C12_Witness ==
  /\ pc = "look" /\ Len(calls) = 2
  /\ calls[1].pos = <<250, 250>> /\ calls[2].pos = <<265, 250>>
  /\ last_position = <<265, 250>>

\* C13: in an iteration that begins with no production in flight and the
\* position more than 0.1 from last_position (the request for it was
\* suppressed while a production ran), a request for the current position
\* is issued, with or without movement input.
C13_RegenerateEveryIteration ==
  [][(/\ pc = "input" /\ pc' = "look"
      /\ last_position # None /\ ~generating /\ threads = {}
      /\ Dist2(position, last_position) > 10 * 10
      /\ Dist2(position', last_position) > 10 * 10)
       => last_position' = position']_vars

\* C14: while the queue holds an artifact not yet inserted into the cache,
\* generating is true.
C14_FlagHeldUntilDrain == Len(image_queue) > 0 => generating

\* C16: the drain step can always be taken, whatever the workers do, and on
\* an empty queue it changes none of image_cache, image, generating,
\* last_position, cache_key and position.
C16_NonBlockingDrain ==
  /\ [](pc = "drain" => ENABLED DrainStep)
  /\ [][(pc = "drain" /\ pc' = "draw" /\ image_queue = <<>>) =>
          UNCHANGED <<image_cache, image, generating, last_position,
                      cache_key, position>>]_vars

\* the drain has returned on an empty queue while a worker is inside the
\* producer call
C16_Witness ==
  /\ pc = "draw" /\ image_queue = <<>> /\ textures = <<>>
  /\ \E t \in threads : t.pc = "model"

\* C17: generate_image, called with generating false where the key of the
\* position is cached, starts no thread, pushes nothing, leaves image_cache
\* alone, makes player.image the cached artifact and returns with generating
\* false.
C17_CacheHitNoProduction ==
  [][(/\ CheckStep /\ ~generating
      /\ (last_position = None \/ Dist2(position', last_position) > 10 * 10)
      /\ CacheKeyOf(position') \in DOMAIN image_cache)
       => /\ threads' = threads /\ calls' = calls
          /\ image_queue' = image_queue
          /\ image_cache' = image_cache
          /\ image' = image_cache[CacheKeyOf(position')]
          /\ generating' = FALSE
          /\ last_position' = position']_vars

\* a request at a new position of a cached key has been answered from the
\* cache
C17_Witness ==
  /\ pc = "look" /\ ~generating /\ threads = {} /\ Len(calls) = 1
  /\ last_position = position /\ position # StartPosition
  /\ CacheKeyOf(position) \in DOMAIN image_cache
  /\ image = image_cache[CacheKeyOf(position)]

\* C18: the key queued with an image, and the key an image is cached under,
\* is the key derived at the request of the production that made the image;
\* cache_key is that key from the start of a production to its push.
C18_KeyArtifactConsistency ==
  /\ \A i \in 1..Len(image_queue) :
       image_queue[i][1] = calls[image_queue[i][2]].key
  /\ \A k \in DOMAIN image_cache : calls[textures[image_cache[k]]].key = k
  /\ \A t \in threads :
       t.pc \in {"model", "put"} => cache_key = calls[t.id].key

\* an image is queued, and one cached, under the key of its request after
\* the player has moved on to another key
C18_Witness ==
  /\ Len(image_queue) > 0 /\ image_queue[1][1] # CacheKeyOf(position)
  /\ image_cache # <<>>

----------------------------------------------------------------------------
(* Progress.  A started thread is scheduled until it ends, and the producer *)
(* call returns or raises.                                                  *)

WorkerFair ==
  /\ WF_vars(\E t \in threads : ModelReturns(t) \/ ModelRaises(t))
  /\ WF_vars(\E t \in threads : Put(t))
  /\ WF_vars(\E t \in threads : Finally(t))

SpecFair == Spec /\ WorkerFair

\* C15: whenever generating is true it later becomes false, after a
\* producer that returns and after one that raises.
C15_NoStuckFlag == generating ~> ~generating

\* generating was set by a request and cleared by the end of its worker,
\* once after a producer that raised and once after one that returned
C15_Witness ==
  /\ ~generating /\ threads = {} /\ Len(calls) = 2
  /\ 1 \in failed /\ Len(image_queue) + Len(textures) = 1

\* the first part of an iteration, within the iterations explored here
MainMoveLive == iter < MaxIterLive /\ MainMove

\* the control loop keeps iterating: main is scheduled and is not quit
LoopFair ==
  /\ WF_vars(InitialGenerate)
  /\ WF_vars(MainMoveLive)
  /\ WF_vars(LookStep)
  /\ WF_vars(DrainStep)
  /\ WF_vars(DrawStep)

NextLive ==
  \/ InitialGenerate
  \/ MainMoveLive
  \/ LookStep
  \/ DrainStep
  \/ DrawStep
  \/ \E t \in threads : ModelReturns(t)
  \/ \E t \in threads : ModelRaises(t)
  \/ \E t \in threads : Put(t)
  \/ \E t \in threads : Finally(t)

SpecLive == Init /\ [][NextLive]_vars /\ WorkerFair /\ LoopFair

Queued(id) == \E i \in 1..Len(image_queue) : image_queue[i][2] = id

====
